---------------------------- MODULE Spec2Model ----------------------------
(***************************************************************************)
(* A model of makei's build driver, src/makei/build.py (class BuildEnv):   *)
(* construction (__init__: temporary variable file, project descriptor,    *)
(* target-map traversal, target resolution, build-variable emission),      *)
(* make() (executor output classification, cleanup, summary) and __del__.  *)
(*                                                                         *)
(* Paths are sequences of directory names relative to the source root;     *)
(* text that the code inspects character by character (include paths,      *)
(* executor output lines) is a sequence of one-character strings.          *)
(***************************************************************************)
EXTENDS Naturals, Sequences, FiniteSets, TLC

(***************************************************************************)
(* Bounds of the model.                                                    *)
(***************************************************************************)
\* descriptors one traversal may process before the model stops following it
MaxVisits == 6
\* BuildEnv objects constructed one after the other in one process
MaxInvocations == 2
\* output lines of one executor run
MaxLines == 2
\* elements of an include path
MaxIncLen == 2

(***************************************************************************)
(* The source tree.                                                        *)
(***************************************************************************)
Root == <<>>
DirA == <<"a">>
DirB == <<"b">>
DirAC == <<"a", "c">>
\* a path no directory of the tree has
DirX == <<"x">>
\* the directories that exist under the source root
Dirs == {Root, DirA, DirB, DirAC}
\* the name of a/c as a descriptor in a writes it
RelC == <<"c">>
\* what a descriptor's subdirectory list may name
Refs == Dirs \cup {DirX, RelC}
\* the directory a subdirectory name in the descriptor of d stands for
Declared(d, subdir) == d \o subdir
\* base name of the source root (Path.cwd().name)
ProjName == "proj"

\* Path.parents[0]
Parent(p) == SubSeq(p, 1, Len(p) - 1)
\* len(Path.parts)
Depth(p) == Len(p)
\* Path.name
Name(p) == IF p = Root THEN ProjName ELSE p[Len(p)]

Range(s) == {s[i] : i \in 1..Len(s)}

\* RulesMk: the parsed content of one Rules.mk, or the absence of the file
Entry(t, srcs) == [target |-> t, srcs |-> srcs]
RulesMk(t, s) == [exists |-> TRUE, targets |-> t, subdirs |-> s]
NoRulesMk == [exists |-> FALSE, targets |-> <<>>, subdirs |-> <<>>]

TargetChoices(d) ==
    CASE d = Root  -> {<<Entry("T1", <<"s1">>)>>, <<Entry("T1", <<"s1", "a">>)>>}
      [] d = DirA  -> {<<Entry("T2", <<"s2">>)>>,
                       <<Entry("T2", <<"s1">>), Entry("T3", <<"s3">>)>>}
      [] d = DirB  -> {<<Entry("T4", <<"s4">>)>>, <<Entry("T4", <<"a">>)>>}
      [] OTHER     -> {<<Entry("T5", <<"s5">>)>>}

SubdirChoices(d) ==
    CASE d = Root  -> {<<>>, <<DirA, DirB>>, <<DirA, DirA>>, <<DirB, DirX>>}
      [] d = DirA  -> {<<>>, <<DirAC>>, <<RelC>>, <<DirA>>, <<Root>>}
      [] d = DirB  -> {<<>>, <<DirAC>>}
      [] OTHER     -> {<<>>, <<DirA>>}

RulesChoices(d) ==
    {NoRulesMk} \cup {RulesMk(t, s) : t \in TargetChoices(d), s \in SubdirChoices(d)}

\* every tree of Rules.mk files the traversal is checked on
Trees ==
    {[d \in Dirs |-> CASE d = Root -> r [] d = DirA -> a [] d = DirB -> b [] OTHER -> c] :
        r \in RulesChoices(Root), a \in RulesChoices(DirA),
        b \in RulesChoices(DirB), c \in RulesChoices(DirAC)}

VARIABLES
    rules,            \* disk: Dirs -> RulesMk, the Rules.mk of each directory
    ibmi,             \* disk: Dirs -> the .ibmi.json of each directory
    iproj,            \* disk: iproj.json at the source root
    copies,           \* disk: directories holding a .Rules.mk.build
    build_vars,       \* disk: the temporary variable file of this invocation
    logs,             \* disk: .logs/joblog.json and .logs/output.log present
    req,              \* arguments of BuildEnv(targets, srcs)
    output,           \* what the executor prints when it runs
    exit_code,        \* the executor's process exit code
    pc,               \* position of the invocation
    err,              \* exception that ended the invocation, or "none"
    invocation,       \* number of BuildEnv objects constructed so far
    rules_mks,        \* _read_rules_mks: the worklist
    map_to_targets,   \* _read_rules_mks: the map under construction
    visits,           \* how often each descriptor was parsed by the traversal
    target_maps,      \* self.target_maps
    targets,          \* self.targets
    tmp_files,        \* BuildEnv.tmp_files, a class attribute
    subdirs,          \* _create_build_vars: the directories, sorted by depth
    resolved,         \* _create_build_vars: directories map_ibmi_json_var has seen
    dir_var_map,      \* _create_build_vars: directory -> IBMiJson
    failed_targets,   \* self.failed_targets
    success_targets,  \* self.success_targets
    consumed,         \* output lines handed to handle_make_output so far
    executor_runs,    \* run_command calls of this invocation
    cmd,              \* the command line handed to run_command
    summary,          \* what _post_make printed
    result            \* value make() returned

disk == <<rules, ibmi, iproj, copies, build_vars, logs>>
inputs == <<req, output, exit_code>>
traversal == <<rules_mks, map_to_targets, visits>>
resolution == <<subdirs, resolved, dir_var_map>>
execution == <<failed_targets, success_targets, consumed, executor_runs, cmd, summary,
               result>>
vars == <<rules, ibmi, iproj, copies, build_vars, logs, req, output, exit_code,
          pc, err, invocation, rules_mks, map_to_targets, visits, target_maps,
          targets, tmp_files, subdirs, resolved, dir_var_map, failed_targets,
          success_targets, consumed, executor_runs, cmd, summary, result>>

(***************************************************************************)
(* Text.                                                                   *)
(***************************************************************************)
\* str.upper(), on the letters the model's texts use
UpperChar(c) ==
    CASE c = "n" -> "N" [] c = "o" -> "O" [] c = "e" -> "E" [] c = "i" -> "I"
      [] c = "c" -> "C" [] c = "t" -> "T" [] c = "s" -> "S" [] OTHER -> c
Upper(s) == [i \in 1..Len(s) |-> UpperChar(s[i])]

\* sep.join(list), on character sequences
RECURSIVE Join(_, _)
Join(sep, list) ==
    IF Len(list) = 0 THEN <<>>
    ELSE IF Len(list) = 1 THEN list[1]
    ELSE list[1] \o sep \o Join(sep, Tail(list))

\* s.replace(ch, rep) for a one-character ch
RECURSIVE Replace(_, _, _)
Replace(s, ch, rep) ==
    IF Len(s) = 0 THEN <<>>
    ELSE (IF s[1] = ch THEN rep ELSE <<s[1]>>) \o Replace(Tail(s), ch, rep)

\* marker in line
Contains(line, marker) ==
    \E i \in 1..(Len(line) + 1) :
        /\ i + Len(marker) - 1 <= Len(line)
        /\ SubSeq(line, i, i + Len(marker) - 1) = marker

\* line.split(): the maximal runs of non-blank characters
RECURSIVE SplitFrom(_, _, _)
SplitFrom(line, i, word) ==
    IF i > Len(line) THEN (IF word = <<>> THEN <<>> ELSE <<word>>)
    ELSE IF line[i] = " "
         THEN (IF word = <<>> THEN <<>> ELSE <<word>>) \o SplitFrom(line, i + 1, <<>>)
         ELSE SplitFrom(line, i + 1, Append(word, line[i]))
Split(line) == SplitFrom(line, 1, <<>>)

\* s.split(sep)[0] for a one-character sep
RECURSIVE BeforeFirst(_, _)
BeforeFirst(s, sep) ==
    IF Len(s) = 0 \/ s[1] = sep THEN <<>>
    ELSE <<s[1]>> \o BeforeFirst(Tail(s), sep)

(***************************************************************************)
(* Configuration files and the executor's output.                          *)
(***************************************************************************)
\* a key an .ibmi.json does not give
Absent == "<absent>"
\* .ibmi.json: the keys of its "build" object, or the absence of the file
IbmiFile(ccsid, lib) == [exists |-> TRUE, tgt_ccsid |-> ccsid, objlib |-> lib]
NoIbmiFile == [exists |-> FALSE, tgt_ccsid |-> Absent, objlib |-> Absent]

OverrideCcsid(d) ==
    CASE d = Root -> "500" [] d = DirA -> "37" [] d = DirB -> "1208" [] OTHER -> "273"
OverrideLib(d) == "LIB" \o Name(d)

IbmiChoices(d) ==
    IF d = Root THEN {NoIbmiFile, IbmiFile(OverrideCcsid(d), OverrideLib(d))}
    ELSE {NoIbmiFile, IbmiFile(OverrideCcsid(d), Absent),
          IbmiFile(Absent, OverrideLib(d)), IbmiFile(OverrideCcsid(d), OverrideLib(d))}

Overrides ==
    {[d \in Dirs |-> CASE d = Root -> r [] d = DirA -> a [] d = DirB -> b [] OTHER -> c] :
        r \in IbmiChoices(Root), a \in IbmiChoices(DirA),
        b \in IbmiChoices(DirB), c \in IbmiChoices(DirAC)}
NoOverrides == [d \in Dirs |-> NoIbmiFile]

\* IBMiJson: an object whose build dictionary carries the two settings
IBMiJsonFromValues(tgt_ccsid, objlib) ==
    [build |-> [tgt_ccsid |-> tgt_ccsid, objlib |-> objlib]]
\* IBMiJson.from_file(path, parent): the parent's settings with the keys the
\* file gives laid over them; the parent's settings when there is no file
IBMiJsonFromFile(file, parent) ==
    IF ~file.exists THEN parent
    ELSE [build |->
            [tgt_ccsid |-> IF file.tgt_ccsid = Absent THEN parent.build.tgt_ccsid
                           ELSE file.tgt_ccsid,
             objlib    |-> IF file.objlib = Absent THEN parent.build.objlib
                           ELSE file.objlib]]
\* objlib_to_path: the library as a path under the fixed root
ObjlibToPath(lib) == "/QSYS.LIB/" \o lib \o ".LIB"

StarNone == <<"*", "N", "O", "N", "E">>
IncElems ==
    {StarNone, <<"*", "n", "o", "n", "e">>, <<"*", "N", "o", "n", "e">>,
     <<"i", "n", "c">>, <<"i", "t", "'", "s">>, <<"A">>, <<"B">>}

SeqsUpTo(S, n) == UNION {[1..k -> S] : k \in 0..n}

\* iproj.json, loaded (IProjJson) or not loadable
IProjJson(include_path) ==
    [status |-> "ok", tgt_ccsid |-> "*JOB", objlib |-> "ROOTLIB", curlib |-> "CURLIB",
     pre_usr_libl |-> <<"PRE1", "PRE2">>, post_usr_libl |-> <<"POST1">>,
     include_path |-> include_path, set_ibm_i_env_cmd |-> <<"CMD1", "CMD2">>]
BadIProjJson(status) ==
    [status |-> status, tgt_ccsid |-> "", objlib |-> "", curlib |-> "",
     pre_usr_libl |-> <<>>, post_usr_libl |-> <<>>, include_path |-> <<>>,
     set_ibm_i_env_cmd |-> <<>>]

\* BuildEnv(targets, srcs)
Request(t, s) == [targets |-> t, srcs |-> s]
Requests ==
    {Request(<<>>, <<>>), Request(<<"T1">>, <<>>), Request(<<"T2">>, <<"zz">>),
     Request(<<>>, <<"s1">>), Request(<<>>, <<"s1", "s5">>), Request(<<>>, <<"a">>),
     Request(<<>>, <<"zz">>), Request(<<"T2">>, <<"s1">>)}

\* what the executor reports about one target, and other output
Event(kind, target) == [kind |-> kind, target |-> target]
TargetNames == {<<"T", "1">>, <<"T", "2">>}
Events ==
    {Event(k, t) : k \in {"failed", "created"}, t \in TargetNames}
        \cup {Event("other", <<>>)}
FailedMarker ==
    <<"F", "a", "i", "l", "e", "d", " ", "t", "o", " ", "c", "r", "e", "a", "t", "e">>
CreatedMarker ==
    <<"w", "a", "s", " ", "c", "r", "e", "a", "t", "e", "d", " ",
      "s", "u", "c", "c", "e", "s", "s", "f", "u", "l", "l", "y", "!">>
\* the line the executor's makefile prints for an event
ExecLine(ev) ==
    CASE ev.kind = "failed"  -> <<"x", " ">> \o FailedMarker \o <<" ">> \o ev.target \o <<"!">>
      [] ev.kind = "created" -> <<">", " ">> \o ev.target \o <<" ">> \o CreatedMarker
      [] OTHER               -> <<"m", "a", "k", "e", ":", " ", "d", "o", "n", "e">>
ExitCodes == {"zero", "nonzero"}

(***************************************************************************)
(* __init__, lines 44-63: the temporary variable file, then iproj.json.    *)
(***************************************************************************)
EmptyMap == [k \in {} |-> k]
NoText ==
    [curlib |-> "", preUsrlibl |-> "", postUsrlibl |-> "", INCDIR |-> <<>>,
     unquotedINCDIR |-> <<>>, doublequotedINCDIR |-> <<>>, IBMiEnvCmd |-> "",
     dirs |-> <<>>]
NoFile == [exists |-> FALSE, text |-> NoText]
NoCmd == ""
NoSummary == [printed |-> FALSE, failed |-> 0, succeed |-> 0, total |-> 0]

\* the fields of a BuildEnv object before its constructor has run
FreshObject ==
    /\ err = "none"
    /\ rules_mks = <<>>
    /\ map_to_targets = EmptyMap
    /\ visits = [d \in Dirs |-> 0]
    /\ target_maps = EmptyMap
    /\ targets = <<>>
    /\ subdirs = <<>>
    /\ resolved = 0
    /\ dir_var_map = EmptyMap
    /\ failed_targets = <<>>
    /\ success_targets = <<>>
    /\ consumed = 0
    /\ executor_runs = 0
    /\ cmd = NoCmd
    /\ summary = NoSummary
    /\ result = "none"

\* sep.join(list), on strings
RECURSIVE JoinStr(_, _)
JoinStr(sep, list) ==
    IF Len(list) = 0 THEN ""
    ELSE IF Len(list) = 1 THEN list[1]
    ELSE list[1] \o sep \o JoinStr(sep, Tail(list))

\* lines 56-60
IbmiEnvCmds(iproj_json) ==
    IF Len(iproj_json.set_ibm_i_env_cmd) > 0
    THEN JoinStr("\\n", iproj_json.set_ibm_i_env_cmd)
    ELSE ""

\* IProjJson.from_file raises when iproj.json is absent or malformed
LoadFails(file) == file.status # "ok"

Construct ==
    /\ pc = "start"
    /\ build_vars' = [exists |-> TRUE, text |-> NoText]
    /\ IF LoadFails(iproj)
       THEN /\ pc' = "failed"
            /\ err' = "ConfigError"
            /\ UNCHANGED <<rules_mks, failed_targets, success_targets>>
       ELSE /\ pc' = "read_rules"
            /\ err' = "none"
            /\ failed_targets' = <<>>
            /\ success_targets' = <<>>
            /\ rules_mks' = <<Root>>
    /\ map_to_targets' = EmptyMap
    /\ UNCHANGED <<rules, ibmi, iproj, copies, logs, inputs, invocation, visits,
                   target_maps, targets, tmp_files, resolution, consumed,
                   executor_runs, cmd, summary, result>>

(***************************************************************************)
(* _read_rules_mks, lines 87-100.                                          *)
(***************************************************************************)
\* the test of line 92 made on the directory instead of on its Rules.mk
RulesMkExistsDir(d) == d \in Dirs

\* Path.exists() of a Rules.mk
RulesMkExists(d) == d \in Dirs /\ rules[d].exists

\* for src in src_list: map_to_targets[src] = target
RECURSIVE PutSources(_, _, _)
PutSources(map, src_list, target) ==
    IF Len(src_list) = 0 THEN map
    ELSE PutSources((src_list[1] :> target) @@ map, Tail(src_list), target)

\* for target, src_list in rules_mk.targets
RECURSIVE PutTargets(_, _)
PutTargets(map, entries) ==
    IF Len(entries) = 0 THEN map
    ELSE PutTargets(PutSources(map, entries[1].srcs, entries[1].target), Tail(entries))

\* line 98 as it would be if the directory's target had no prefix
DirTargetBare(d) == Name(d)

\* key and value of the entry line 98 writes for a directory
DirKey(d) == Name(d)
DirTarget(d) == "dir_" \o Name(d)

\* lines 94-98 for the descriptor of directory d
RecordDescriptor(map, d) ==
    (DirKey(d) :> DirTarget(d)) @@ PutTargets(map, rules[d].targets)

\* line 99: what the worklist holds after the descriptor of d was read
Enqueue(rest, d) ==
    rest \o [i \in DOMAIN rules[d].subdirs |-> Root \o rules[d].subdirs[i]]

TotalVisits == visits[Root] + visits[DirA] + visits[DirB] + visits[DirAC]

ReadRulesPop ==
    /\ pc = "read_rules"
    /\ Len(rules_mks) > 0
    /\ LET rules_mk == rules_mks[Len(rules_mks)]
           rest == SubSeq(rules_mks, 1, Len(rules_mks) - 1)
       IN  IF RulesMkExists(rules_mk)
           THEN /\ TotalVisits < MaxVisits
                /\ map_to_targets' = RecordDescriptor(map_to_targets, rules_mk)
                /\ rules_mks' = Enqueue(rest, rules_mk)
                /\ visits' = [visits EXCEPT ![rules_mk] = @ + 1]
           ELSE /\ rules_mks' = rest
                /\ UNCHANGED <<map_to_targets, visits>>
    /\ UNCHANGED <<disk, inputs, pc, err, invocation, target_maps, targets,
                   tmp_files, resolution, execution>>

(***************************************************************************)
(* __init__, lines 65-71: the targets to build.                            *)
(***************************************************************************)
\* a requested source the target map has no key for (line 69 raises KeyError)
UnknownSource(map, srcs) == \E i \in 1..Len(srcs) : srcs[i] \notin DOMAIN map

\* lines 66-71 as they would be if requested sources came before given targets
ResolveTargetsSourcesFirst(map, r) ==
    IF Len(r.srcs) > 0
    THEN IF UnknownSource(map, r.srcs)
         THEN [raised |-> TRUE, targets |-> <<>>]
         ELSE [raised |-> FALSE,
               targets |-> [i \in 1..Len(r.srcs) |-> map[r.srcs[i]]]]
    ELSE IF Len(r.targets) > 0 THEN [raised |-> FALSE, targets |-> r.targets]
    ELSE [raised |-> FALSE, targets |-> <<"all">>]

\* lines 66-71 as they would be if sources without an entry were skipped
ResolveTargetsSkipping(map, r) ==
    IF Len(r.targets) > 0 THEN [raised |-> FALSE, targets |-> r.targets]
    ELSE IF Len(r.srcs) > 0
         THEN [raised |-> FALSE,
               targets |-> [i \in 1..Len(SelectSeq(r.srcs, LAMBDA x : x \in DOMAIN map)) |->
                               map[SelectSeq(r.srcs, LAMBDA x : x \in DOMAIN map)[i]]]]
         ELSE [raised |-> FALSE, targets |-> <<"all">>]

\* lines 66-71: the targets, or the KeyError of the first failing lookup
ResolveTargets(map, r) ==
    IF Len(r.targets) > 0 THEN [raised |-> FALSE, targets |-> r.targets]
    ELSE IF Len(r.srcs) > 0
         THEN IF UnknownSource(map, r.srcs)
              THEN [raised |-> TRUE, targets |-> <<>>]
              ELSE [raised |-> FALSE,
                    targets |-> [i \in 1..Len(r.srcs) |-> map[r.srcs[i]]]]
         ELSE [raised |-> FALSE, targets |-> <<"all">>]

SetTargets ==
    /\ pc = "read_rules"
    /\ Len(rules_mks) = 0
    /\ target_maps' = map_to_targets
    /\ LET outcome == ResolveTargets(map_to_targets, req)
       IN  IF outcome.raised
           THEN /\ pc' = "failed"
                /\ err' = "KeyError@69"
                /\ UNCHANGED targets
           ELSE /\ pc' = "create_build_vars"
                /\ targets' = outcome.targets
                /\ UNCHANGED err
    /\ UNCHANGED <<disk, inputs, invocation, traversal, tmp_files, resolution,
                   execution>>

(***************************************************************************)
(* _create_build_vars, lines 102-152.                                      *)
(***************************************************************************)
FilePath(d, name) == [dir |-> d, name |-> name]
\* the copy written over the descriptor it was made from
BuildCopyPathOverOriginal(d) == FilePath(d, "Rules.mk")
\* line 110: rules_mk_path.parent / ".Rules.mk.build"
BuildCopyPath(d) == FilePath(d, ".Rules.mk.build")
\* a Rules.mk that was overwritten with the text of a copy
Rewritten == RulesMk(<<>>, <<>>)

InSubtree(p, d) == Len(p) <= Len(d) /\ SubSeq(d, 1, Len(p)) = p
Described == {d \in Dirs : rules[d].exists}
\* Path(".").rglob("Rules.mk"): a directory before the directories below it,
\* one subtree after the other, siblings in the order the file system lists them
RglobOrders ==
    {s \in [1..Cardinality(Described) -> Described] :
        /\ \A i, j \in DOMAIN s : i # j => s[i] # s[j]
        /\ \A i, j \in DOMAIN s : i < j => ~InSubtree(s[j], s[i])
        /\ \A q \in Dirs : \A i, j, k \in DOMAIN s :
              (i < j /\ j < k /\ InSubtree(q, s[i]) /\ InSubtree(q, s[k]))
                  => InSubtree(q, s[j])}

\* list.sort(key=lambda x: len(x.parts)) is stable
RECURSIVE InsertByDepth(_, _)
InsertByDepth(sorted, x) ==
    IF Len(sorted) = 0 THEN <<x>>
    ELSE IF Depth(sorted[Len(sorted)]) <= Depth(x) THEN Append(sorted, x)
    ELSE Append(InsertByDepth(SubSeq(sorted, 1, Len(sorted) - 1), x),
                sorted[Len(sorted)])
RECURSIVE SortByDepthFrom(_, _)
SortByDepthFrom(sorted, rest) ==
    IF Len(rest) = 0 THEN sorted
    ELSE SortByDepthFrom(InsertByDepth(sorted, rest[1]), Tail(rest))
SortByDepth(paths) == SortByDepthFrom(<<>>, paths)

\* lines 105-117: the copies are written, the directories sorted
WriteCopies ==
    /\ pc = "create_build_vars"
    /\ \E rules_mk_paths \in RglobOrders :
          LET written == {BuildCopyPath(rules_mk_paths[i]) : i \in DOMAIN rules_mk_paths}
          IN  /\ copies' = copies \cup {f \in written : f.name # "Rules.mk"}
              /\ rules' = [d \in Dirs |->
                              IF FilePath(d, "Rules.mk") \in written THEN Rewritten
                              ELSE rules[d]]
              /\ tmp_files' = tmp_files \o
                    [i \in DOMAIN rules_mk_paths |-> BuildCopyPath(rules_mk_paths[i])]
              /\ subdirs' = SortByDepth(rules_mk_paths)
    /\ resolved' = 0
    /\ dir_var_map' = (Root :> IBMiJsonFromValues(iproj.tgt_ccsid, iproj.objlib))
    /\ pc' = "resolve"
    /\ UNCHANGED <<ibmi, iproj, build_vars, logs, inputs, err, invocation, traversal,
                   target_maps, targets, execution>>

\* line 121 as it would be if every directory were resolved against the root
ResolveAgainstRoot(path) == Root

\* line 121: the directory whose settings a directory is resolved against
ResolveAgainst(path) == Parent(path)

\* lines 119-121 as they would be if the parent's settings were not passed on
MapIbmiJsonVarNoParent(map, path) ==
    IF path # Root
    THEN (path :> IBMiJsonFromFile(ibmi[path], IBMiJsonFromValues(Absent, Absent))) @@ map
    ELSE map

\* lines 119-121: map_ibmi_json_var(path), when the lookup of the parent succeeds
MapIbmiJsonVar(map, path) ==
    IF path # Root
    THEN (path :> IBMiJsonFromFile(ibmi[path], map[ResolveAgainst(path)])) @@ map
    ELSE map

\* line 121 raises KeyError
MapRaises(map, path) == path # Root /\ ResolveAgainst(path) \notin DOMAIN map

ResolveStep ==
    /\ pc = "resolve"
    /\ resolved < Len(subdirs)
    /\ LET path == subdirs[resolved + 1]
       IN  IF MapRaises(dir_var_map, path)
           THEN /\ pc' = "failed"
                /\ err' = "KeyError@121"
                /\ UNCHANGED dir_var_map
           ELSE /\ dir_var_map' = MapIbmiJsonVar(dir_var_map, path)
                /\ UNCHANGED <<pc, err>>
    /\ resolved' = resolved + 1
    /\ UNCHANGED <<disk, inputs, invocation, traversal, target_maps, targets,
                   tmp_files, subdirs, execution>>

\* lines 128-132 as they would be if *NONE were compared case-sensitively
RenderIncdirCaseSensitive(includePath) ==
    IF Len(includePath) > 0 /\ includePath # <<StarNone>>
    THEN <<"'">> \o Join(<<"'", " ", "'">>, includePath) \o <<"'">>
    ELSE StarNone

\* lines 128-132
RenderIncdir(includePath) ==
    IF Len(includePath) > 0
         /\ [i \in 1..Len(includePath) |-> Upper(includePath[i])] # <<StarNone>>
    THEN <<"'">> \o Join(<<"'", " ", "'">>, includePath) \o <<"'">>
    ELSE StarNone
\* line 141
RenderUnquoted(includePath) == Join(<<" ">>, includePath)
\* line 142
RenderDoublequoted(incdir) == Replace(incdir, "'", <<"'", "'">>)

\* lines 147-152: the two lines written for one directory
DirLines(map, subdir) ==
    [dir |-> subdir,
     TGTCCSID |-> map[subdir].build.tgt_ccsid,
     OBJPATH |-> ObjlibToPath(map[subdir].build.objlib)]

\* lines 133-152: the text of the variable file
VarsText(map, dirs) ==
    [curlib |-> iproj.curlib,
     preUsrlibl |-> JoinStr(" ", iproj.pre_usr_libl),
     postUsrlibl |-> JoinStr(" ", iproj.post_usr_libl),
     INCDIR |-> RenderIncdir(iproj.include_path),
     unquotedINCDIR |-> RenderUnquoted(iproj.include_path),
     doublequotedINCDIR |-> RenderDoublequoted(RenderIncdir(iproj.include_path)),
     IBMiEnvCmd |-> IbmiEnvCmds(iproj),
     dirs |-> [i \in 1..Len(dirs) |-> DirLines(map, dirs[i])]]

EmitVars ==
    /\ pc = "resolve"
    /\ resolved = Len(subdirs)
    /\ build_vars' = [exists |-> TRUE, text |-> VarsText(dir_var_map, subdirs)]
    /\ pc' = "constructed"
    /\ UNCHANGED <<rules, ibmi, iproj, copies, logs, inputs, err, invocation,
                   traversal, target_maps, targets, tmp_files, resolution, execution>>

(***************************************************************************)
(* make, lines 164-183, and _post_make, lines 186-192.                     *)
(***************************************************************************)
\* line 176: line.split()[-1].split("!")[0]
FailedTargetOf(line) == BeforeFirst(Split(line)[Len(Split(line))], "!")
\* line 178: line.split()[1]
CreatedTargetOf(line) == Split(line)[2]

\* lines 175-176
HandleFailed(failed, line) ==
    IF Contains(line, FailedMarker) THEN Append(failed, FailedTargetOf(line))
    ELSE failed
\* lines 177-178
HandleCreated(created, line) ==
    IF Contains(line, CreatedMarker) THEN Append(created, CreatedTargetOf(line))
    ELSE created

\* line 183 as it would be if the executor's exit code decided the result
MakeResultByExitCode(failed, code) == code = "zero"

\* make_options of a BuildEnv constructed without any (line 46)
MakeOptions == ""
\* the command up to the options: program, variable file, BOB, makefile
MakeCmdHead == "make -k BUILDVARSMKPATH=vars -k BOB=bob -f makefile"

\* generate_make_cmd, lines 78-85
GenerateMakeCmd(make_options, goals) ==
    LET with_options == IF make_options # "" THEN MakeCmdHead \o " " \o make_options
                        ELSE MakeCmdHead
    IN  with_options \o " " \o JoinStr(" ", goals)

\* line 183
MakeResult(failed, code) == Len(failed) = 0

\* lines 166-169 and the start of run_command
MakeStart ==
    /\ pc = "constructed"
    /\ logs' = FALSE
    /\ executor_runs' = executor_runs + 1
    /\ cmd' = GenerateMakeCmd(MakeOptions, targets)
    /\ pc' = "running"
    /\ UNCHANGED <<rules, ibmi, iproj, copies, build_vars, inputs, err, invocation,
                   traversal, target_maps, targets, tmp_files, resolution,
                   failed_targets, success_targets, consumed, summary, result>>

\* handle_make_output, lines 172-179, on the next line of the executor
HandleMakeOutput ==
    /\ pc = "running"
    /\ consumed < Len(output)
    /\ LET line == ExecLine(output[consumed + 1])
       IN  /\ failed_targets' = HandleFailed(failed_targets, line)
           /\ success_targets' = HandleCreated(success_targets, line)
    /\ consumed' = consumed + 1
    /\ UNCHANGED <<disk, inputs, pc, err, invocation, traversal, target_maps,
                   targets, tmp_files, resolution, executor_runs, cmd, summary,
                   result>>

\* a file on disk
OnDisk(files, originals, f) ==
    IF f.name = "Rules.mk" THEN originals[f.dir].exists ELSE f \in files

\* a cleanup that leaves every file where it is
UnlinkNothing(files, originals, list) ==
    [copies |-> files, rules |-> originals, raised |-> FALSE]

\* lines 187-188: tmp_file.unlink() for each entry in turn; unlink raises
\* FileNotFoundError when the file is not there
RECURSIVE UnlinkAll(_, _, _)
UnlinkAll(files, originals, list) ==
    IF Len(list) = 0 THEN [copies |-> files, rules |-> originals, raised |-> FALSE]
    ELSE IF ~OnDisk(files, originals, list[1])
         THEN [copies |-> files, rules |-> originals, raised |-> TRUE]
         ELSE UnlinkAll(files \ {list[1]},
                        IF list[1].name = "Rules.mk"
                        THEN [originals EXCEPT ![list[1].dir] = NoRulesMk]
                        ELSE originals,
                        Tail(list))

\* line 189
Summary(failed, succeed) ==
    [printed |-> TRUE, failed |-> Len(failed), succeed |-> Len(succeed),
     total |-> Len(succeed) + Len(failed)]

\* the executor has exited: lines 182-183 and _post_make
PostMake ==
    /\ pc = "running"
    /\ consumed = Len(output)
    /\ LET after == UnlinkAll(copies, rules, tmp_files)
       IN  /\ copies' = after.copies
           /\ rules' = after.rules
           /\ IF after.raised
              THEN /\ pc' = "failed"
                   /\ err' = "FileNotFoundError"
                   /\ UNCHANGED <<summary, result>>
              ELSE /\ pc' = "returned"
                   /\ summary' = Summary(failed_targets, success_targets)
                   /\ result' = IF MakeResult(failed_targets, exit_code) THEN "true"
                                ELSE "false"
                   /\ UNCHANGED err
    /\ UNCHANGED <<ibmi, iproj, build_vars, logs, inputs, invocation, traversal,
                   target_maps, targets, tmp_files, resolution, failed_targets,
                   success_targets, consumed, executor_runs, cmd>>

(***************************************************************************)
(* __del__, lines 75-76, and the next BuildEnv of the same process.        *)
(***************************************************************************)
Del ==
    /\ pc \in {"returned", "failed"}
    /\ build_vars' = NoFile
    /\ pc' = "finalized"
    /\ UNCHANGED <<rules, ibmi, iproj, copies, logs, inputs, err, invocation,
                   traversal, target_maps, targets, tmp_files, resolution, execution>>

NewInvocation ==
    /\ pc = "finalized"
    /\ invocation < MaxInvocations
    /\ invocation' = invocation + 1
    /\ pc' = "start"
    /\ err' = "none"
    /\ rules_mks' = <<>>
    /\ map_to_targets' = EmptyMap
    /\ visits' = [d \in Dirs |-> 0]
    /\ target_maps' = EmptyMap
    /\ targets' = <<>>
    /\ subdirs' = <<>>
    /\ resolved' = 0
    /\ dir_var_map' = EmptyMap
    /\ failed_targets' = <<>>
    /\ success_targets' = <<>>
    /\ consumed' = 0
    /\ executor_runs' = 0
    /\ cmd' = NoCmd
    /\ summary' = NoSummary
    /\ result' = "none"
    /\ UNCHANGED <<disk, inputs, tmp_files>>

Next ==
    \/ Construct
    \/ ReadRulesPop
    \/ SetTargets
    \/ WriteCopies
    \/ ResolveStep
    \/ EmitVars
    \/ MakeStart
    \/ HandleMakeOutput
    \/ PostMake
    \/ Del
    \/ NewInvocation

(***************************************************************************)
(* Initial states: a process that has constructed no BuildEnv yet, in a    *)
(* source tree, with a request and an executor drawn from the sets given.  *)
(***************************************************************************)
InitWith(trees, overrides, iprojs, requests, outputs, codes) ==
    /\ rules \in trees
    /\ ibmi \in overrides
    /\ iproj \in iprojs
    /\ copies = {}
    /\ build_vars = NoFile
    /\ logs = TRUE
    /\ req \in requests
    /\ output \in outputs
    /\ exit_code \in codes
    /\ pc = "start"
    /\ invocation = 1
    /\ tmp_files = <<>>
    /\ FreshObject

DefaultRules(d) ==
    CASE d = Root  -> RulesMk(<<Entry("T1", <<"s1">>)>>, <<DirA, DirB>>)
      [] d = DirA  -> RulesMk(<<Entry("T2", <<"s2">>)>>, <<DirAC>>)
      [] d = DirB  -> RulesMk(<<Entry("T4", <<"s4">>)>>, <<>>)
      [] OTHER     -> RulesMk(<<Entry("T5", <<"s5">>)>>, <<>>)
\* the trees in which each directory has its usual Rules.mk or none
PresenceTrees == {t \in Trees : \A d \in Dirs : t[d] \in {NoRulesMk, DefaultRules(d)}}
UsualTree == [d \in Dirs |-> DefaultRules(d)]
UsualOutput == <<Event("failed", <<"T", "1">>), Event("created", <<"T", "2">>)>>

\* the whole driver on a few trees, requests and executor runs
MainTrees == {t \in PresenceTrees : t[Root].exists /\ t[DirB].exists}
MainOverrides ==
    {o \in Overrides :
        /\ o[Root] = NoIbmiFile /\ o[DirB] = NoIbmiFile
        /\ o[DirA] \in {NoIbmiFile, IbmiFile(Absent, OverrideLib(DirA))}
        /\ o[DirAC] \in {NoIbmiFile, IbmiFile(OverrideCcsid(DirAC), Absent)}}
MainIProjs ==
    {IProjJson(<<>>), IProjJson(<<<<"i", "n", "c">>>>),
     BadIProjJson("absent"), BadIProjJson("malformed")}
MainOutputs == {<<>>, <<Event("created", <<"T", "1">>)>>, UsualOutput}

Init == InitWith(MainTrees, MainOverrides, MainIProjs, Requests, MainOutputs, ExitCodes)
Spec == Init /\ [][Next]_vars

\* the target-map traversal on every tree
InitTraversal ==
    InitWith(Trees, {NoOverrides}, {IProjJson(<<>>)},
             {Request(<<>>, <<>>), Request(<<>>, <<"a">>)}, {UsualOutput}, {"zero"})
SpecTraversal == InitTraversal /\ [][Next]_vars

\* the resolution of directory settings on every placement of descriptors and overrides
InitResolve ==
    InitWith(PresenceTrees, Overrides, {IProjJson(<<>>)}, {Request(<<>>, <<>>)},
             {UsualOutput}, {"zero"})
SpecResolve == InitResolve /\ [][Next]_vars

\* the rendering of every include path
InitRender ==
    InitWith({UsualTree}, {NoOverrides},
             {IProjJson(p) : p \in SeqsUpTo(IncElems, MaxIncLen)},
             {Request(<<>>, <<>>)}, {UsualOutput}, {"zero"})
SpecRender == InitRender /\ [][Next]_vars

\* the classification of every executor output
InitMake ==
    InitWith({UsualTree}, {NoOverrides}, {IProjJson(<<>>)}, {Request(<<>>, <<>>)},
             SeqsUpTo(Events, MaxLines), ExitCodes)
SpecMake == InitMake /\ [][Next]_vars

(***************************************************************************)
(* Properties of the traversal.                                            *)
(***************************************************************************)
\* the descriptors the root descriptor leads to through subdirectory lists,
\* each name taken as a subdirectory of the directory whose descriptor lists it
RECURSIVE LinkClosure(_)
LinkClosure(S) ==
    LET more == {r \in Dirs : rules[r].exists /\
                    \E d \in S : \E subdir \in Range(rules[d].subdirs) :
                        r = Declared(d, subdir)}
    IN  IF more \subseteq S THEN S ELSE LinkClosure(S \cup more)
Reachable == IF rules[Root].exists THEN LinkClosure({Root}) ELSE {}
\* the traversal of this invocation has returned
TraversalDone ==
    pc \in {"create_build_vars", "resolve", "constructed", "running", "returned"}

\* C1: on every tree, cyclic ones included, the traversal parses no descriptor
\* twice, and when it has returned it has parsed every reachable descriptor once.
C1_EachDescriptorOnce ==
    /\ \A d \in Dirs : visits[d] <= 1
    /\ TraversalDone => \A d \in Reachable : visits[d] = 1

(***************************************************************************)
(* Properties of the whole invocation.                                     *)
(***************************************************************************)
\* C2: once an invocation is over and its object finalized, however it ended,
\* neither the temporary variable file nor a descriptor copy is on disk.
C2_NoTemporaryRemains ==
    pc = "finalized" => ~build_vars.exists /\ copies = {}

\* the request is by source files and names a source the target map lacks
UnmappedSourceRequested ==
    /\ Len(req.targets) = 0
    /\ \E i \in 1..Len(req.srcs) : req.srcs[i] \notin DOMAIN target_maps

\* C3: a request by source files naming a source without an entry in the target
\* map ends construction with the lookup error, and the executor is never run.
C3_UnknownSourceFails ==
    (pc \notin {"start", "read_rules"} /\ err # "ConfigError" /\ UnmappedSourceRequested)
        => /\ pc \in {"failed", "finalized"}
           /\ err = "KeyError@69"
           /\ executor_runs = 0
           /\ targets = <<>>
C3_Witness ==
    /\ pc = "failed"
    /\ err = "KeyError@69"
    /\ req.srcs = <<"s1", "s5">>
    /\ "s1" \in DOMAIN target_maps

\* C10: when loading iproj.json fails, nothing has been created on disk at the
\* moment the error is raised.
C10_ConfigErrorBeforeMutation ==
    (pc = "failed" /\ err = "ConfigError") => ~build_vars.exists /\ copies = {}

(***************************************************************************)
(* Properties of make().                                                   *)
(***************************************************************************)
\* the targets of the events of one kind, in the order the executor reports them
RECURSIVE TargetsOfKind(_, _)
TargetsOfKind(events, kind) ==
    IF Len(events) = 0 THEN <<>>
    ELSE (IF events[1].kind = kind THEN <<events[1].target>> ELSE <<>>)
            \o TargetsOfKind(Tail(events), kind)

\* C4: when make() has returned, failed_targets holds the targets of the lines
\* with the "Failed to create" marker, success_targets those of the lines with
\* the "was created successfully!" marker, and the value returned is true exactly
\* when no target failed, whatever the executor's exit code.
C4_ClassifiedByMarkers ==
    pc = "returned" =>
        /\ failed_targets = TargetsOfKind(output, "failed")
        /\ success_targets = TargetsOfKind(output, "created")
        /\ (result = "true") <=> (Len(TargetsOfKind(output, "failed")) = 0)
        /\ result \in {"true", "false"}
C4_Witness ==
    /\ pc = "returned"
    /\ output = <<Event("failed", <<"T", "1">>), Event("created", <<"T", "2">>)>>
    /\ failed_targets = <<<<"T", "1">>>>
    /\ success_targets = <<<<"T", "2">>>>
    /\ exit_code = "zero"
    /\ result = "false"

(***************************************************************************)
(* Properties of the resolution of directory settings.                     *)
(***************************************************************************)
\* the variable file of this invocation has been written
VarsWritten == pc \in {"constructed", "running", "returned"}

\* C5: every directory with a descriptor gets settings, computed from the
\* settings of its immediate parent, and the lookup of the parent never fails.
C5_ResolvedFromParent ==
    /\ err # "KeyError@121"
    /\ VarsWritten =>
          \A d \in Described :
              /\ d \in DOMAIN dir_var_map
              /\ d # Root =>
                    /\ Parent(d) \in DOMAIN dir_var_map
                    /\ dir_var_map[d] = IBMiJsonFromFile(ibmi[d], dir_var_map[Parent(d)])

\* the settings a directory's own override and those of its ancestors give
RECURSIVE ChainSettings(_)
ChainSettings(d) ==
    IF d = Root THEN IBMiJsonFromValues(iproj.tgt_ccsid, iproj.objlib)
    ELSE IBMiJsonFromFile(ibmi[d], ChainSettings(Parent(d)))

\* C6: the settings of a directory are those its own override and the overrides
\* of its ancestors give, whatever the overrides of the other directories, and
\* settings once computed are not changed while later directories are resolved.
C6_ParentChainOnly ==
    /\ [](\A d \in DOMAIN dir_var_map : dir_var_map[d] = ChainSettings(d))
    /\ [][pc = "resolve" =>
            \A d \in DOMAIN dir_var_map :
                d \in DOMAIN dir_var_map' /\ dir_var_map'[d] = dir_var_map[d]]_vars
C6_Witness ==
    /\ pc = "constructed"
    /\ {DirA, DirB, DirAC} \subseteq DOMAIN dir_var_map
    /\ ibmi[DirA] = IbmiFile(Absent, "LIBa")
    /\ ibmi[DirB] = IbmiFile("1208", "LIBb")
    /\ ibmi[DirAC] = IbmiFile("273", Absent)
    /\ dir_var_map[DirA] = IBMiJsonFromValues("*JOB", "LIBa")
    /\ dir_var_map[DirAC] = IBMiJsonFromValues("273", "LIBa")

\* C7: with no .ibmi.json in any directory, the TGTCCSID_ and OBJPATH_ lines of
\* every directory with a descriptor carry the defaults of iproj.json.
C7_DefaultsWithoutOverrides ==
    (VarsWritten /\ \A d \in Dirs : ~ibmi[d].exists) =>
        /\ {build_vars.text.dirs[i].dir : i \in DOMAIN build_vars.text.dirs} = Described
        /\ \A i \in DOMAIN build_vars.text.dirs :
              /\ build_vars.text.dirs[i].TGTCCSID = iproj.tgt_ccsid
              /\ build_vars.text.dirs[i].OBJPATH = "/QSYS.LIB/" \o iproj.objlib \o ".LIB"
C7_Witness ==
    /\ pc = "constructed"
    /\ \A d \in Dirs : ~ibmi[d].exists
    /\ Len(build_vars.text.dirs) = Cardinality(Dirs)
    /\ build_vars.text.dirs[4] = [dir |-> DirAC, TGTCCSID |-> "*JOB",
                                  OBJPATH |-> "/QSYS.LIB/ROOTLIB.LIB"]

(***************************************************************************)
(* Properties of the include-path rendering.                               *)
(***************************************************************************)
\* every element in single quotes, the elements separated by one blank
RECURSIVE QuotedList(_)
QuotedList(p) ==
    IF Len(p) = 0 THEN <<>>
    ELSE <<"'">> \o p[1] \o <<"'">>
            \o (IF Len(p) = 1 THEN <<>> ELSE <<" ">> \o QuotedList(Tail(p)))
\* the elements separated by one blank
RECURSIVE PlainList(_)
PlainList(p) ==
    IF Len(p) = 0 THEN <<>>
    ELSE p[1] \o (IF Len(p) = 1 THEN <<>> ELSE <<" ">> \o PlainList(Tail(p)))
\* the text with one more quote before each of its first n quotes' positions
RECURSIVE QuotesDoubled(_, _)
QuotesDoubled(text, n) ==
    IF n = 0 THEN <<>>
    ELSE QuotesDoubled(text, n - 1)
            \o (IF text[n] = "'" THEN <<"'", "'">> ELSE <<text[n]>>)
\* *NONE in any letter case
IsStarNone(e) ==
    /\ Len(e) = 5
    /\ e[1] = "*"
    /\ e[2] \in {"N", "n"} /\ e[3] \in {"O", "o"}
    /\ e[4] \in {"N", "n"} /\ e[5] \in {"E", "e"}

\* C8: INCDIR is *NONE for an empty include path and for the one-element path
\* *NONE in any letter case, otherwise the elements in single quotes separated
\* by blanks; unquotedINCDIR is the elements separated by blanks;
\* doublequotedINCDIR is INCDIR with every single quote doubled.
C8_IncludePathRendering ==
    VarsWritten =>
        LET p == iproj.include_path
            t == build_vars.text
        IN  /\ (Len(p) = 0 \/ (Len(p) = 1 /\ IsStarNone(p[1]))) => t.INCDIR = StarNone
            /\ ~(Len(p) = 0 \/ (Len(p) = 1 /\ IsStarNone(p[1]))) => t.INCDIR = QuotedList(p)
            /\ t.unquotedINCDIR = PlainList(p)
            /\ t.doublequotedINCDIR = QuotesDoubled(t.INCDIR, Len(t.INCDIR))
            /\ p = <<<<"A">>, <<"B">>>> =>
                  /\ t.INCDIR = <<"'", "A", "'", " ", "'", "B", "'">>
                  /\ t.unquotedINCDIR = <<"A", " ", "B">>
                  /\ t.doublequotedINCDIR =
                        <<"'", "'", "A", "'", "'", " ", "'", "'", "B", "'", "'">>
C8_Witness ==
    /\ pc = "constructed"
    /\ iproj.include_path = <<<<"i", "t", "'", "s">>, <<"*", "n", "o", "n", "e">>>>
    /\ build_vars.text.doublequotedINCDIR =
          <<"'", "'", "i", "t", "'", "'", "s", "'", "'", " ",
            "'", "'", "*", "n", "o", "n", "e", "'", "'">>

(***************************************************************************)
(* Properties of the keys of the target map.                               *)
(***************************************************************************)
\* the descriptors the traversal has parsed
Visited == {d \in Dirs : visits[d] > 0}
\* the source files the parsed descriptors list, and the targets they list them under
ListedEntries == UNION {Range(rules[d].targets) : d \in Visited}
FileKeys == UNION {Range(e.srcs) : e \in ListedEntries}
FileTargets(k) == {e.target : e \in {x \in ListedEntries : k \in Range(x.srcs)}}
\* the keys of the entries written for the parsed directories
DirKeys == {Name(d) : d \in Visited}

\* C9 as stated: the keys written for directories carry a prefix, so that no
\* key of a directory entry is also the key of a source-file entry.
C9_DirectoryKeysDisjoint == DirKeys \cap FileKeys = {}

\* the source files the descriptor of d lists, and the targets it lists them under
SourcesOf(d) == UNION {Range(e.srcs) : e \in Range(rules[d].targets)}
TargetsIn(d, k) == {e.target : e \in {x \in Range(rules[d].targets) : k \in Range(x.srcs)}}

\* C9 as amended: the entry of a directory has the directory's bare base name as
\* its key and the base name prefixed with dir_ as its target; every key of the
\* map is a listed source file or the base name of a parsed directory, and its
\* value is a target the source is listed under or the prefixed directory name.
\* Where keys coincide the later write wins: parsing a descriptor leaves its
\* directory's key on the prefixed name, its sources on its own targets, and
\* every other entry as it was.
C9_DirectoryTargetsPrefixed ==
    /\ [](/\ DOMAIN map_to_targets = FileKeys \cup DirKeys
          /\ \A k \in DOMAIN map_to_targets :
                \/ k \in DirKeys /\ map_to_targets[k] = "dir_" \o k
                \/ k \in FileKeys /\ map_to_targets[k] \in FileTargets(k)
          /\ \A k \in DirKeys \ FileKeys : map_to_targets[k] = "dir_" \o k)
    /\ [][\A d \in Dirs : visits'[d] > visits[d] =>
            /\ map_to_targets'[Name(d)] = "dir_" \o Name(d)
            /\ \A k \in SourcesOf(d) \ {Name(d)} : map_to_targets'[k] \in TargetsIn(d, k)
            /\ \A k \in DOMAIN map_to_targets \ (SourcesOf(d) \cup {Name(d)}) :
                  map_to_targets'[k] = map_to_targets[k]]_vars
C9_Witness ==
    /\ TraversalDone
    /\ rules[Root].targets = <<Entry("T1", <<"s1", "a">>)>>
    /\ "a" \in DirKeys \cap FileKeys
    /\ map_to_targets["a"] = "dir_a"
    /\ map_to_targets["s1"] = "T1"

(***************************************************************************)
(* Properties of dangling references and of executor failures.             *)
(***************************************************************************)
\* a parsed descriptor lists a subdirectory for which no directory exists
DanglingListed ==
    \E d \in Visited : \E r \in Range(rules[d].subdirs) : Declared(d, r) \notin Dirs

\* C11: a subdirectory reference that points to a directory which does not
\* exist is reported as an error by the traversal: the traversal never returns
\* normally after parsing a descriptor that lists such a reference.
C11_DanglingReferenceReported ==
    DanglingListed => ~TraversalDone

\* the outcome make() gives its caller: the value returned and the summary
Outcome == [result |-> result, summary |-> summary]
\* the outcome of a build in which the executor succeeded in creating objs
SuccessOutcome(objs) == [result |-> "true", summary |-> Summary(<<>>, objs)]

\* C12: when the executor exits with a non-zero code and no failure was
\* classified, make() gives an outcome that is neither the one of a fully
\* successful build nor a report of classified failures.
C12_ExecutorFailureDistinct ==
    (pc = "returned" /\ exit_code = "nonzero" /\ Len(failed_targets) = 0) =>
        /\ Outcome # SuccessOutcome(success_targets)
        /\ result # "false"

(***************************************************************************)
(* Properties of the descriptor copies.                                    *)
(***************************************************************************)
\* each descriptor has one copy, in its own directory, under another name
CopyPerDescriptor ==
    /\ \A d \in Described : Cardinality({f \in copies : f.dir = d}) = 1
    /\ \A f \in copies : f.dir \in Described /\ f.name # "Rules.mk"

\* C13: once the copies are written there is one copy per discovered
\* descriptor, next to it and under a different name, and no step of an
\* invocation writes to, renames or deletes an original descriptor.
C13_OriginalsNeverTouched ==
    /\ [](pc \in {"resolve", "constructed", "running"} => CopyPerDescriptor)
    /\ [][rules' = rules]_vars
C13_Witness ==
    /\ pc = "constructed"
    /\ Cardinality(copies) = 4
    /\ \A d \in Dirs : rules[d] = DefaultRules(d)

(***************************************************************************)
(* Properties of the cleanup.                                              *)
(***************************************************************************)
\* C14 as stated: once the executor has exited, the temporary variable file
\* and every descriptor copy are deleted before the summary is reported.
C14_AllDeletedBeforeSummary ==
    summary.printed => (copies = {} /\ ~build_vars.exists)

\* C14: once the executor has exited, with any exit code, every descriptor
\* copy is deleted before the summary is reported; the temporary variable
\* file is still on disk when make() returns and is deleted afterwards, when
\* the object is finalized.
C14_CopiesBeforeSummaryVarsAtFinalize ==
    /\ summary.printed => copies = {}
    /\ pc = "returned" => (summary.printed /\ build_vars.exists)
    /\ pc = "finalized" => ~build_vars.exists
C14_Witness ==
    /\ pc = "returned"
    /\ exit_code = "nonzero"
    /\ Len(tmp_files) > 1
    /\ summary.printed
    /\ copies = {}
    /\ build_vars.exists

\* the copies the running invocation has written so far
OwnCopies ==
    IF pc \in {"resolve", "constructed", "running"}
    THEN {BuildCopyPath(d) : d \in Described}
    ELSE {}

\* C15: no list of temporary files is shared between the invocations of one
\* process: up to its cleanup, the list an invocation's cleanup iterates holds
\* exactly the copies this invocation has written, each once and each on
\* disk, so that no cleanup tries to delete a file that is not there.
C15_CleanupListOwned ==
    /\ pc \in {"start", "read_rules", "create_build_vars", "resolve",
               "constructed", "running"} =>
          /\ Range(tmp_files) = OwnCopies
          /\ Len(tmp_files) = Cardinality(OwnCopies)
          /\ Range(tmp_files) \subseteq copies
    /\ err # "FileNotFoundError"

(***************************************************************************)
(* Completeness of the traversal.                                          *)
(***************************************************************************)
\* the entries of the descriptor of d are in the target map
EntriesPresent(d) ==
    /\ DirKey(d) \in DOMAIN map_to_targets
    /\ \A e \in Range(rules[d].targets) : Range(e.srcs) \subseteq DOMAIN map_to_targets

\* C16: when the traversal has returned, every descriptor reachable from the
\* root through a chain of subdirectory references, of whatever length and
\* also through a descriptor of a nested directory, has been parsed, and its
\* source entries and its directory entry are in the target map.
C16_TraversalComplete ==
    pc = "create_build_vars" =>
        \A d \in Reachable : visits[d] >= 1 /\ EntriesPresent(d)

(***************************************************************************)
(* A listed directory without a descriptor.                                *)
(***************************************************************************)
\* the traversal is about to pop the descriptor path of an existing directory
\* that has no descriptor
PopsMissingDescriptor ==
    /\ pc = "read_rules"
    /\ Len(rules_mks) > 0
    /\ rules_mks[Len(rules_mks)] \in Dirs
    /\ ~rules[rules_mks[Len(rules_mks)]].exists

\* C17: a listed subdirectory whose directory exists but holds no descriptor
\* is skipped without error: popping it adds no entry to the target map,
\* pushes nothing onto the worklist and raises nothing, the traversal goes on
\* with the rest of the worklist, and no such directory is ever parsed.
C17_MissingDescriptorSkipped ==
    /\ [][PopsMissingDescriptor =>
            /\ map_to_targets' = map_to_targets
            /\ rules_mks' = SubSeq(rules_mks, 1, Len(rules_mks) - 1)
            /\ visits' = visits
            /\ pc' = "read_rules"
            /\ err' = err]_vars
    /\ [](\A d \in Dirs : ~rules[d].exists => visits[d] = 0)
C17_Witness ==
    /\ pc = "create_build_vars"
    /\ err = "none"
    /\ rules[Root].exists
    /\ rules[Root].subdirs = <<DirA, DirB>>
    /\ ~rules[DirB].exists
    /\ visits[DirA] = 1
    /\ DirKey(DirB) \notin DOMAIN map_to_targets

(***************************************************************************)
(* The goals handed to the executor.                                       *)
(***************************************************************************)
\* the goals the request asks for
ExpectedGoals ==
    IF Len(req.targets) > 0 THEN req.targets
    ELSE IF Len(req.srcs) > 0
         THEN [i \in 1..Len(req.srcs) |-> target_maps[req.srcs[i]]]
         ELSE <<"all">>
\* the words of a list in order, one space between two of them
RECURSIVE SpaceSeparated(_)
SpaceSeparated(list) ==
    IF Len(list) = 0 THEN ""
    ELSE IF Len(list) = 1 THEN list[1]
    ELSE SpaceSeparated(SubSeq(list, 1, Len(list) - 1)) \o " " \o list[Len(list)]

\* C18: the goals on the command line of the executor are the explicit targets
\* when targets were given; otherwise the target-map translation of each
\* requested source, in the order of the request; otherwise the single goal all.
C18_GoalsPassedToExecutor ==
    executor_runs > 0 =>
        /\ targets = ExpectedGoals
        /\ cmd = MakeCmdHead \o " " \o SpaceSeparated(ExpectedGoals)
C18_Witness ==
    /\ pc = "running"
    /\ req = Request(<<>>, <<"s1", "s5">>)
    /\ cmd = MakeCmdHead \o " T1 T5"
C18_WitnessExplicit ==
    /\ pc = "running"
    /\ req = Request(<<"T2">>, <<"s1">>)
    /\ cmd = MakeCmdHead \o " T2"
C18_WitnessAll ==
    /\ pc = "running"
    /\ req = Request(<<>>, <<>>)
    /\ cmd = MakeCmdHead \o " all"
=============================================================================
